---------------------------- MODULE Spec2Model ----------------------------
(***************************************************************************)
(* Campaign Analytics: the Express backend (backend/server.js) and the     *)
(* statistics of the React client (frontend/src/App.js).                   *)
(*                                                                         *)
(* Strings whose characters the code inspects (column names, cells, the    *)
(* :id parameter) are sequences of one-character strings, so that trim,    *)
(* toLowerCase, parseInt and parseFloat are computed character by          *)
(* character.  Message texts the code only passes along stay TLA+ strings. *)
(***************************************************************************)
EXTENDS Integers, Sequences, FiniteSets, TLC

(* ------------------------------ bounds --------------------------------- *)
\* upload requests the server receives in one run
MaxRequests == 2
\* data rows of an uploaded CSV
MaxRows == 2
\* posts of a list handed to calculateStats
MaxStatPosts == 3
MaxTopPosts == 6
MaxMediaPosts == 3
MaxRateRows == 3
\* average requests of the client awaiting their response
MaxInFlight == 2

(* --------------------------- JavaScript strings ------------------------ *)
UpperAlpha == <<"A","B","C","D","E","F","G","H","I","J","K","L","M",
                "N","O","P","Q","R","S","T","U","V","W","X","Y","Z">>
LowerAlpha == <<"a","b","c","d","e","f","g","h","i","j","k","l","m",
                "n","o","p","q","r","s","t","u","v","w","x","y","z">>
Digits == <<"0","1","2","3","4","5","6","7","8","9">>
WhiteSpace == {" ", "\t"}

IsDigit(c) == \E i \in 1..Len(Digits) : Digits[i] = c
DigitVal(c) == (CHOOSE i \in 1..Len(Digits) : Digits[i] = c) - 1

\* String.prototype.toLowerCase, one character
LowerChar(c) ==
  IF \E i \in 1..Len(UpperAlpha) : UpperAlpha[i] = c
  THEN LowerAlpha[CHOOSE i \in 1..Len(UpperAlpha) : UpperAlpha[i] = c]
  ELSE c

toLowerCase(s) == [i \in 1..Len(s) |-> LowerChar(s[i])]

RECURSIVE TrimStart(_)
TrimStart(s) ==
  IF s # <<>> /\ Head(s) \in WhiteSpace THEN TrimStart(Tail(s)) ELSE s

RECURSIVE TrimEnd(_)
TrimEnd(s) ==
  IF s # <<>> /\ s[Len(s)] \in WhiteSpace
  THEN TrimEnd(SubSeq(s, 1, Len(s) - 1)) ELSE s

\* String.prototype.trim
trim(s) == TrimEnd(TrimStart(s))

(* --------------------------- JavaScript values ------------------------- *)
\* undefined (a missing property) and NaN (a failed numeric parse)
Undefined == [t |-> "undefined"]
NaN == [t |-> "NaN"]

\* A double is hi * 2^53 + lo / Frac: lo counts quarters, hi counts 2^53s.
\* Every value the model computes with is a double exactly.
Frac == 2 * 2
Num(hi, lo) == [t |-> "num", hi |-> hi, lo |-> lo]
Int2Num(n) == Num(0, n * Frac)
Zero == Num(0, 0)
\* Infinity and -Infinity
Inf(neg) == [t |-> "inf", neg |-> neg]
\* null: what JSON makes of a number that is not finite
Null == [t |-> "null"]

IsNum(v) == v.t = "num"
\* ToBoolean of a value used as the left operand of ||
Truthy(v) ==
  CASE v.t = "undefined" -> FALSE
    [] v.t = "NaN" -> FALSE
    [] v.t = "null" -> FALSE
    [] v.t = "num" -> ~(v.hi = 0 /\ v.lo = 0)
    [] v.t = "str" -> v.s # <<>>
    [] OTHER -> TRUE

\* a || b
Or(a, b) == IF Truthy(a) THEN a ELSE b

Str(s) == [t |-> "str", s |-> s]


(* --------------------------- parseInt, parseFloat ---------------------- *)
RECURSIVE DigitPrefix(_)
\* the longest prefix of s made of decimal digits
DigitPrefix(s) ==
  IF s # <<>> /\ IsDigit(Head(s)) THEN <<Head(s)>> \o DigitPrefix(Tail(s)) ELSE <<>>

RECURSIVE DigitsValue(_)
DigitsValue(ds) ==
  IF ds = <<>> THEN 0
  ELSE 10 * DigitsValue(SubSeq(ds, 1, Len(ds) - 1)) + DigitVal(ds[Len(ds)])

RECURSIVE Pow10(_)
Pow10(k) == IF k = 0 THEN 1 ELSE 10 * Pow10(k - 1)

HasSign(s) == s # <<>> /\ Head(s) \in {"+", "-"}
SignOf(s) == IF s # <<>> /\ Head(s) = "-" THEN -1 ELSE 1
Unsigned(s) == IF HasSign(s) THEN Tail(s) ELSE s

\* parseInt(v), radix 10: leading white space, an optional sign, then the
\* longest run of digits; NaN when there is none.  undefined is read as the
\* string "undefined".  (No cell of the model starts with 0x.)
parseInt(v) ==
  IF v.t # "str" THEN NaN
  ELSE LET body == Unsigned(TrimStart(v.s))
           ds == DigitPrefix(body)
       IN IF ds = <<>> THEN NaN
          ELSE Int2Num(SignOf(TrimStart(v.s)) * DigitsValue(ds))

\* parseFloat(v): leading white space, an optional sign, digits, and an
\* optional fraction; NaN when no digit is found.  Every cell of the model
\* with a fraction denotes a multiple of 1/Frac, so the conversion to a
\* double is exact; the text Infinity is read as the number.  (No cell of
\* the model has an exponent.)
InfinityText == <<"I","n","f","i","n","i","t","y">>
StartsWith(s, p) == Len(s) >= Len(p) /\ SubSeq(s, 1, Len(p)) = p

parseFloat(v) ==
  IF v.t # "str" THEN NaN
  ELSE LET body == Unsigned(TrimStart(v.s))
           ip == DigitPrefix(body)
           rest == SubSeq(body, Len(ip) + 1, Len(body))
           fp == IF rest # <<>> /\ Head(rest) = "." THEN DigitPrefix(Tail(rest)) ELSE <<>>
           sgn == SignOf(TrimStart(v.s))
       IN IF StartsWith(body, InfinityText) THEN Inf(sgn < 0)
          ELSE IF ip = <<>> /\ fp = <<>> THEN NaN
          ELSE Num(0, sgn * (DigitsValue(ip) * Frac
                             + (DigitsValue(fp) * Frac) \div Pow10(Len(fp))))

(* ------------------------------ csv-parser ----------------------------- *)
\* A parsed row is a JavaScript object: its properties in insertion order.
Keys(obj) == [i \in 1..Len(obj) |-> obj[i].k]
Has(obj, k) == \E i \in 1..Len(obj) : obj[i].k = k
\* obj[k]
Get(obj, k) ==
  IF Has(obj, k) THEN Str(obj[CHOOSE i \in 1..Len(obj) : obj[i].k = k].v)
  ELSE Undefined
\* obj[k] = v
Put(obj, k, v) ==
  IF Has(obj, k)
  THEN [i \in 1..Len(obj) |-> IF obj[i].k = k THEN [k |-> k, v |-> v] ELSE obj[i]]
  ELSE Append(obj, [k |-> k, v |-> v])

RECURSIVE WriteRow(_, _)
\* csv(): one data line becomes an object with a property for each cell the
\* line has, named by the header of the cell's column; a line with fewer
\* cells than the header (a blank line has none) lacks the trailing
\* properties.
WriteRow(header, cells) ==
  IF cells = <<>> THEN <<>>
  ELSE Put(WriteRow(header, SubSeq(cells, 1, Len(cells) - 1)),
           header[Len(cells)], cells[Len(cells)])

\* the rows the 'data' events deliver for a file, in file order
CsvRows(file) == [i \in 1..Len(file.rows) |-> WriteRow(file.header, file.rows[i])]

(* ------------------------- canonical column names ---------------------- *)
s_post_id == <<"p","o","s","t","_","i","d">>
s_upload_date == <<"u","p","l","o","a","d","_","d","a","t","e">>
s_media_type == <<"m","e","d","i","a","_","t","y","p","e">>
s_likes == <<"l","i","k","e","s">>
s_comments == <<"c","o","m","m","e","n","t","s">>
s_shares == <<"s","h","a","r","e","s">>
s_saves == <<"s","a","v","e","s">>
s_reach == <<"r","e","a","c","h">>
s_impressions == <<"i","m","p","r","e","s","s","i","o","n","s">>
s_caption_length == <<"c","a","p","t","i","o","n","_","l","e","n","g","t","h">>
s_hashtags_count == <<"h","a","s","h","t","a","g","s","_","c","o","u","n","t">>
s_followers_gained == <<"f","o","l","l","o","w","e","r","s","_","g","a","i","n","e","d">>
s_traffic_source == <<"t","r","a","f","f","i","c","_","s","o","u","r","c","e">>
s_engagement_rate == <<"e","n","g","a","g","e","m","e","n","t","_","r","a","t","e">>
s_content_category == <<"c","o","n","t","e","n","t","_","c","a","t","e","g","o","r","y">>

(* ------------------- POST /campaigns/: validation ---------------------- *)
requiredFields == <<s_engagement_rate, s_media_type, s_followers_gained, s_shares, s_saves>>

normalizeFieldName(name) == toLowerCase(trim(name))

\* normalizedFields[fieldNormalized] !== undefined, for the object built from
\* Object.keys(firstPost)
InNormalizedFields(firstPost, fieldNormalized) ==
  \E i \in 1..Len(firstPost) : normalizeFieldName(firstPost[i].k) = fieldNormalized

hasField(firstPost, field) ==
  Has(firstPost, field) \/ InNormalizedFields(firstPost, normalizeFieldName(field))

RECURSIVE FilterMissing(_, _)
FilterMissing(fields, firstPost) ==
  IF fields = <<>> THEN <<>>
  ELSE (IF hasField(firstPost, Head(fields)) THEN <<>> ELSE <<Head(fields)>>)
       \o FilterMissing(Tail(fields), firstPost)

missingFields(firstPost) == FilterMissing(requiredFields, firstPost)

(* ------------------- POST /campaigns/: normalization ------------------- *)
\* Object.keys(post).find(k => k.trim().toLowerCase() === fieldNormalized)
FindKey(post, fieldNormalized) ==
  IF \E i \in 1..Len(post) : toLowerCase(trim(post[i].k)) = fieldNormalized
  THEN LET P == {i \in 1..Len(post) : toLowerCase(trim(post[i].k)) = fieldNormalized}
       IN Str(post[CHOOSE i \in P : \A j \in P : i <= j].k)
  ELSE Undefined

getField(post, fieldName) ==
  LET exactMatch == Get(post, fieldName)
      key == FindKey(post, toLowerCase(trim(fieldName)))
  IN IF exactMatch # Undefined THEN exactMatch
     ELSE IF Truthy(key) THEN Get(post, key.s) ELSE Undefined

EmptyStr == Str(<<>>)
\* parseInt(getField(post, name)) || 0
IntFieldMutNoDefault(post, name) == parseInt(getField(post, name))
IntField(post, name) == Or(parseInt(getField(post, name)), Zero)
FloatField(post, name) == Or(parseFloat(getField(post, name)), Zero)

\* const postId = getField(post, 'post_id') || (index + 1), index from 0
postIdMutIndex0(post, index) == Or(getField(post, s_post_id), Int2Num(index))
postIdOf(post, index) == Or(getField(post, s_post_id), Int2Num(index + 1))

\* the callback of posts.map; index counts from 0
NormalizePost(post, index) ==
  [ id |-> postIdOf(post, index),
    post_id |-> Or(getField(post, s_post_id), postIdOf(post, index)),
    upload_date |-> Or(getField(post, s_upload_date), EmptyStr),
    media_type |-> Or(getField(post, s_media_type), EmptyStr),
    likes |-> IntField(post, s_likes),
    comments |-> IntField(post, s_comments),
    shares |-> IntField(post, s_shares),
    saves |-> IntField(post, s_saves),
    reach |-> IntField(post, s_reach),
    impressions |-> IntField(post, s_impressions),
    caption_length |-> IntField(post, s_caption_length),
    hashtags_count |-> IntField(post, s_hashtags_count),
    followers_gained |-> IntField(post, s_followers_gained),
    traffic_source |-> Or(getField(post, s_traffic_source), EmptyStr),
    engagement_rate |-> FloatField(post, s_engagement_rate),
    content_category |-> Or(getField(post, s_content_category), EmptyStr) ]

\* posts.map(...)
MapPostsMutReversed(posts) ==
  [i \in 1..Len(posts) |-> NormalizePost(posts[Len(posts) + 1 - i], Len(posts) - i)]
MapPosts(posts) == [i \in 1..Len(posts) |-> NormalizePost(posts[i], i - 1)]


(* ------------------------------ uploaded files ------------------------- *)
\* column names as they may be spelled in a header line
h_Engagement_Rate == <<" ","E","n","g","a","g","e","m","e","n","t","_","R","a","t","e"," ">>
h_MEDIA_TYPE == <<"M","E","D","I","A","_","T","Y","P","E">>
h_Shares == <<" ","S","h","a","r","e","s"," ">>
h_Post_ID == <<" ","P","o","s","t","_","I","D"," ">>

HeaderCanonical == <<s_engagement_rate, s_media_type, s_followers_gained, s_shares, s_saves>>
HeaderSpelled == <<h_Engagement_Rate, h_MEDIA_TYPE, s_followers_gained, h_Shares, s_saves, s_likes>>
HeaderNoMedia == <<s_engagement_rate, s_followers_gained, s_shares, s_saves>>
HeaderPostId == <<s_post_id, s_engagement_rate, s_media_type, s_followers_gained, s_shares, s_saves>>
HeaderPostIdSpelled == <<h_Post_ID, s_media_type, s_engagement_rate, s_shares, s_saves, s_followers_gained>>
HeaderTwoPostIds == <<s_post_id, h_Post_ID, s_engagement_rate, s_media_type, s_followers_gained, s_shares, s_saves>>

Headers ==
  {HeaderCanonical, HeaderSpelled, HeaderNoMedia, HeaderPostId, HeaderPostIdSpelled,
   HeaderTwoPostIds}

\* cell texts
NumTexts == <<<<"1","2">>, <<>>, <<"a","b","c">>, <<"7","x">>>>
RateTexts == <<<<"4",".","5">>, <<>>, <<"a","b","c">>, <<"2">>>>
MediaTexts == <<<<"v","i","d","e","o">>, <<"i","m","a","g","e">>>>
PidTexts == <<<<>>, <<"7">>>>

\* A data line is chosen by: n (which numeric texts its cells hold), pid (the
\* text of its post_id cells) and len (0: a cell for every column, 1: only
\* the first two cells, 2: a blank line).
RowChoices == [n : 1..Len(NumTexts), pid : 1..Len(PidTexts), len : 0..2]

CellText(col, j, rc) ==
  LET name == normalizeFieldName(col)
  IN CASE name = s_post_id -> PidTexts[IF j = 1 THEN rc.pid ELSE Len(PidTexts) + 1 - rc.pid]
       [] name = s_engagement_rate -> RateTexts[rc.n]
       [] name = s_media_type -> MediaTexts[(rc.n % Len(MediaTexts)) + 1]
       [] OTHER -> NumTexts[((rc.n + j) % Len(NumTexts)) + 1]

RowCells(header, rc) ==
  LET all == [j \in 1..Len(header) |-> CellText(header[j], j, rc)]
  IN CASE rc.len = 0 -> all
       [] rc.len = 1 -> SubSeq(all, 1, 2)
       [] OTHER -> <<>>

RowSeqs(S, n) == UNION {[1..k -> S] : k \in 0..n}

\* every file of at most maxRows data lines over the headers above
Files(maxRows) ==
  {[header |-> h, rows |-> [i \in 1..Len(rcs) |-> RowCells(h, rcs[i])]] :
     h \in Headers, rcs \in RowSeqs(RowChoices, maxRows)}

\* The files of the average runs: the canonical header and up to MaxRateRows
\* full lines, whose engagement_rate cell is one of RateCells.
RateCells ==
  {<<"4",".","5">>, <<"2">>, <<"-","1">>, <<>>, <<"0",".","2","5">>, InfinityText}

RateLine(rate) == <<rate, MediaTexts[1], NumTexts[1], NumTexts[1], NumTexts[1]>>

RateFiles ==
  {[header |-> HeaderCanonical, rows |-> [i \in 1..Len(rs) |-> RateLine(rs[i])]] :
     rs \in RowSeqs(RateCells, MaxRateRows)}

FullRow == [n |-> 1, pid |-> 2, len |-> 0]
\* the files of the concurrent server runs: accepted ones of one and two
\* lines, a header-only file, one without media_type, one whose first data
\* line is blank
ServerFiles ==
  { [header |-> HeaderCanonical, rows |-> <<RowCells(HeaderCanonical, FullRow)>>],
    [header |-> HeaderPostId,
     rows |-> <<RowCells(HeaderPostId, FullRow),
                RowCells(HeaderPostId, [n |-> 2, pid |-> 1, len |-> 0])>>],
    [header |-> HeaderCanonical, rows |-> <<>>],
    [header |-> HeaderNoMedia, rows |-> <<RowCells(HeaderNoMedia, FullRow)>>],
    [header |-> HeaderCanonical,
     rows |-> <<<<>>, RowCells(HeaderCanonical, FullRow)>>] }


(* --------------------------- double arithmetic ------------------------- *)
Abs(n) == IF n < 0 THEN -n ELSE n
Sgn(n) == IF n < 0 THEN -1 ELSE 1

RECURSIVE Pow2Below(_)
\* the largest power of two that is at most h, for h >= 1
Pow2Below(h) == IF h < 2 THEN 1 ELSE 2 * Pow2Below(h \div 2)

\* l rounded to a multiple of u, a tie going to the even multiple
RoundTiesEven(l, u) ==
  LET q == l \div u
      r == l % u
  IN CASE 2 * r < u -> q * u
       [] 2 * r > u -> (q + 1) * u
       [] OTHER -> (IF q % 2 = 0 THEN q ELSE q + 1) * u

\* The spacing of the doubles around h * 2^53 + l / Frac (h >= 1, l small),
\* in units of 1/Frac: 2 * 2^k in [2^(53+k), 2^(54+k)), and half of that just
\* below a power of two.
Spacing(h, l) ==
  IF l < 0 /\ Pow2Below(h) = h THEN Pow2Below(h) * Frac ELSE 2 * Pow2Below(h) * Frac

\* a + b in IEEE 754 double precision, round to nearest, ties to even.
\* Below 2^53 every multiple of 1/Frac is a double and the sum is exact.
FlAddFinite(a, b) ==
  LET h == a.hi + b.hi
      l == a.lo + b.lo
  IN IF h = 0 THEN Num(0, l)
     ELSE Num(h, Sgn(h) * RoundTiesEven(Sgn(h) * l, Spacing(Abs(h), Sgn(h) * l)))

\* ToNumber of an operand of + or -: null is 0
ToNumber(v) == IF v.t = "null" THEN Zero ELSE v

\* a + b on numbers: Infinity absorbs every finite number, and Infinity plus
\* -Infinity is NaN
FlAdd(a, b) ==
  LET x == ToNumber(a)
      y == ToNumber(b)
  IN CASE x.t = "num" /\ y.t = "num" -> FlAddFinite(x, y)
       [] x.t = "NaN" \/ y.t = "NaN" -> NaN
       [] x.t = "inf" /\ y.t = "inf" -> IF x.neg = y.neg THEN x ELSE NaN
       [] x.t = "inf" -> x
       [] OTHER -> y

\* x / n for a double x below 2^53 in magnitude, as the rational num/den.
\* The double nearest to it lies on the same side of every 4-decimal tie
\* (den = Frac * n and n < 8), so toFixed may read the rational.
\* Infinity / n is Infinity and NaN / n is NaN, for n >= 1.
Quot(x, n) == IF x.t = "num" THEN [num |-> x.lo, den |-> Frac * n] ELSE x

\* Number.prototype.toFixed(4) of num/den: the sign, and the magnitude in
\* 1/10000s rounded to nearest, a tie going up; "-0.0000" keeps its sign.
\* Of a number that is not finite it is the text Infinity, -Infinity or NaN,
\* which the value itself stands for.
toFixed4(q) ==
  IF "den" \in DOMAIN q
  THEN [neg |-> q.num < 0,
        tenk |-> (2 * Abs(q.num) * 10000 + q.den) \div (2 * q.den)]
  ELSE q


(* ------------------------------- state --------------------------------- *)
VARIABLES
  campaigns,   \* server.js: let campaigns = []
  uploads,     \* the requests whose temporary file exists in uploads/
  req,         \* each upload request: where it is, its file, rows, response
  received,    \* how many upload requests have arrived
  up,          \* the server process is running
  statPosts,   \* client: campaign.posts as handed to calculateStats
  stats,       \* client: the last result of calculateStats
  firstStats,  \* client: the result for the order the posts arrived in
  app,         \* client: the state hooks of App
  net,         \* client: the requests awaiting their response
  sent         \* client: how many uploads it has sent

vars == <<campaigns, uploads, req, received, up, statPosts, stats, firstStats,
          app, net, sent>>
serverVars == <<campaigns, uploads, req, received, up>>
clientVars == <<statPosts, stats, firstStats, app, net, sent>>
statVars == <<statPosts, stats, firstStats>>
appVars == <<app, net, sent>>

Requests == 1..MaxRequests

NoFile == [header |-> <<>>, rows |-> <<>>]
NoCampaign == [id |-> 0, posts |-> <<>>]
NoResp == [status |-> 0, error |-> "", campaign |-> NoCampaign,
           missing |-> <<>>, available |-> <<>>]
ErrorResp(status, msg) == [NoResp EXCEPT !.status = status, !.error = msg]

Idle == [pc |-> "idle", file |-> NoFile, results |-> <<>>, resp |-> NoResp]

(* -------------------- POST /campaigns/ after the parse ----------------- *)
\* id: campaigns.length + 1
NewIdMutZeroBased(store) == Len(store)
NewId(store) == Len(store) + 1

\* campaigns.push(campaign)
PushMutFront(store, campaign) == <<campaign>> \o store
Push(store, campaign) == Append(store, campaign)

\* if (!posts || posts.length === 0)
IsEmptyCsv(posts) == Len(posts) = 0

\* the handler without its empty-file check
AfterParseMutNoEmptyCheck(store, posts) ==
  IF Len(posts) > 0 /\ Len(missingFields(posts[1])) > 0
  THEN [resp |-> [ErrorResp(400, "Missing required fields") EXCEPT
                    !.missing = missingFields(posts[1]),
                    !.available = Keys(posts[1])],
        store |-> store]
  ELSE LET campaign == [id |-> NewId(store), posts |-> MapPosts(posts)]
       IN [resp |-> [NoResp EXCEPT !.status = 200, !.campaign = campaign],
           store |-> Push(store, campaign)]

\* The handler from the line after await parseCSV to its response, for
\* the parsed rows posts: the answer and the store after it.
AfterParse(store, posts) ==
  IF IsEmptyCsv(posts)
  THEN [resp |-> ErrorResp(400, "CSV file is empty"), store |-> store]
  ELSE IF Len(missingFields(posts[1])) > 0
  THEN [resp |-> [ErrorResp(400, "Missing required fields") EXCEPT
                    !.missing = missingFields(posts[1]),
                    !.available = Keys(posts[1])],
        store |-> store]
  ELSE LET campaign == [id |-> NewId(store), posts |-> MapPosts(posts)]
       IN [resp |-> [NoResp EXCEPT !.status = 200, !.campaign = campaign],
           store |-> Push(store, campaign)]


(* --------------------------- GET /campaigns/... ------------------------ *)
NoAverage == [neg |-> FALSE, tenk |-> 0]
NoGet == [route |-> "none", param |-> <<>>, status |-> 0, error |-> "",
          campaign |-> NoCampaign, list |-> <<>>, average |-> NoAverage]

FindByIdMutFirst(store, param) == IF store = <<>> THEN 0 ELSE 1

\* campaigns.find(c => c.id === parseInt(req.params.id)): the position of the
\* first match, 0 when there is none
FindById(store, param) ==
  LET M == {i \in 1..Len(store) : Int2Num(store[i].id) = parseInt(Str(param))}
  IN IF M = {} THEN 0 ELSE CHOOSE i \in M : \A j \in M : i <= j

\* parseFloat(post.engagement_rate) || 0 on a stored number: the number is
\* printed and read back, which returns it unchanged
RateOf(post) == Or(post.engagement_rate, Zero)

RECURSIVE SumRates(_, _)
\* posts.reduce((sum, post) => sum + (parseFloat(...) || 0), sum), left to
\* right
SumRates(sum, posts) ==
  IF posts = <<>> THEN sum
  ELSE SumRates(FlAdd(sum, RateOf(Head(posts))), Tail(posts))

\* calculateAverageEngagementRate(posts), for non-empty posts
calculateAverageEngagementRate(posts) ==
  toFixed4(Quot(SumRates(Zero, posts), Len(posts)))

\* parseFloat of a toFixed(4) string, as JSON carries it: "-0.0000" is 0
\* and the texts Infinity and NaN are read as the numbers
ParseFixed(s) ==
  IF "tenk" \in DOMAIN s THEN [neg |-> s.neg /\ s.tenk # 0, tenk |-> s.tenk] ELSE s

\* JSON.stringify of a number, read back by JSON.parse: a number that is not
\* finite becomes null
JsonNumber(v) == IF "t" \in DOMAIN v /\ v.t \in {"inf", "NaN"} THEN Null ELSE v

\* the posts of a campaign as the client receives them
JsonPosts(posts) ==
  [i \in 1..Len(posts) |-> [posts[i] EXCEPT !.engagement_rate = JsonNumber(@)]]

GetCampaignResp(store, param) ==
  IF FindById(store, param) = 0
  THEN [NoGet EXCEPT !.route = "byId", !.param = param, !.status = 404,
                     !.error = "Campaign not found"]
  ELSE [NoGet EXCEPT !.route = "byId", !.param = param, !.status = 200,
                     !.campaign = store[FindById(store, param)]]

GetAverageResp(store, param) ==
  IF FindById(store, param) = 0
  THEN [NoGet EXCEPT !.route = "average", !.param = param, !.status = 404,
                     !.error = "Campaign not found"]
  ELSE [NoGet EXCEPT !.route = "average", !.param = param, !.status = 200,
                     !.average = JsonNumber(ParseFixed(calculateAverageEngagementRate(
                                   store[FindById(store, param)].posts)))]

IdParams == {<<"1">>, <<"2">>, <<"2", "x">>, <<"x">>}

\* GET /campaigns/
GetAllResp(store) == [NoGet EXCEPT !.route = "all", !.status = 200, !.list = store]

\* The GET routes read campaigns and write nothing; what they answer in a
\* state is GetCampaignResp, GetAllResp and GetAverageResp of that state.
\* GET /campaigns/:id
GetCampaign ==
  /\ up
  /\ \E param \in IdParams : GetCampaignResp(campaigns, param).status \in {200, 404}
  /\ UNCHANGED vars

\* GET /campaigns/
GetAll ==
  /\ up
  /\ GetAllResp(campaigns).status = 200
  /\ UNCHANGED vars

\* GET /campaigns/:id/average-engagement-rate
GetAverage ==
  /\ up
  /\ \E param \in IdParams : GetAverageResp(campaigns, param).status \in {200, 404}
  /\ UNCHANGED vars

(* ----------------------------- POST /campaigns/ ------------------------ *)
\* cleanup() of parseCSV, and the unlink of the catch block
Cleanup(fs, r) == fs \ {r}

\* multer refuses the upload (fileFilter, or the 10MB limit) and the error
\* middleware answers; multer leaves no file behind
MulterReject ==
  /\ up /\ received < MaxRequests
  /\ \E msg \in {"Only CSV files are allowed", "File too large. Maximum size is 10MB"} :
       req' = [req EXCEPT ![received + 1] =
                 [Idle EXCEPT !.pc = "done", !.resp = ErrorResp(400, msg)]]
  /\ received' = received + 1
  /\ UNCHANGED <<campaigns, uploads, up, clientVars>>

\* the request carries no file
NoFileUploaded ==
  /\ up /\ received < MaxRequests
  /\ req' = [req EXCEPT ![received + 1] =
               [Idle EXCEPT !.pc = "done", !.resp = ErrorResp(400, "No file uploaded")]]
  /\ received' = received + 1
  /\ UNCHANGED <<campaigns, uploads, up, clientVars>>

\* multer stores the file; the handler runs up to await parseCSV(req.file.path)
ReceiveFile(files) ==
  /\ up /\ received < MaxRequests
  /\ \E f \in files :
       req' = [req EXCEPT ![received + 1] = [Idle EXCEPT !.pc = "parsing", !.file = f]]
  /\ uploads' = uploads \cup {received + 1}
  /\ received' = received + 1
  /\ UNCHANGED <<campaigns, up, clientVars>>

\* .on('data', (data) => results.push(data))
ParseData ==
  \E r \in Requests :
    /\ up /\ req[r].pc = "parsing"
    /\ Len(req[r].results) < Len(req[r].file.rows)
    /\ req' = [req EXCEPT ![r].results =
                 Append(@, CsvRows(req[r].file)[Len(req[r].results) + 1])]
    /\ UNCHANGED <<campaigns, uploads, received, up, clientVars>>

\* .on('end'): cleanup(), resolve(results); the handler resumes in the same
\* turn of the event loop and runs to its response
ParseEnd ==
  \E r \in Requests :
    /\ up /\ req[r].pc = "parsing"
    /\ Len(req[r].results) = Len(req[r].file.rows)
    /\ LET out == AfterParse(campaigns, req[r].results)
       IN /\ req' = [req EXCEPT ![r].pc = "done", ![r].resp = out.resp]
          /\ campaigns' = out.store
    /\ uploads' = Cleanup(uploads, r)
    /\ UNCHANGED <<received, up, clientVars>>

\* .on('error') of the csv() stream: cleanup(), reject(error); the catch
\* block finds no file left and answers 500
ParserError ==
  \E r \in Requests :
    /\ up /\ req[r].pc = "parsing"
    /\ req' = [req EXCEPT ![r].pc = "done", ![r].results = <<>>,
                          ![r].resp = ErrorResp(500, "Failed to process campaign file")]
    /\ uploads' = Cleanup(Cleanup(uploads, r), r)
    /\ UNCHANGED <<campaigns, received, up, clientVars>>

\* fs.createReadStream(filePath) emits 'error'.  The listener of parseCSV is
\* registered on the stream .pipe(csv()) returns, and pipe forwards no error:
\* the event has no listener, the exception is uncaught and the process ends.
ReadError ==
  \E r \in Requests :
    /\ up /\ req[r].pc = "parsing"
    /\ req' = [req EXCEPT ![r].pc = "aborted", ![r].results = <<>>]
    /\ up' = FALSE
    /\ UNCHANGED <<campaigns, uploads, received, clientVars>>


(* ------------------------ client: calculateStats ----------------------- *)
RECURSIVE AddFollowers(_, _)
\* posts.reduce((sum, post) => sum + post.followers_gained, sum)
AddFollowers(sum, posts) ==
  IF posts = <<>> THEN sum
  ELSE AddFollowers(FlAdd(sum, Head(posts).followers_gained), Tail(posts))

RECURSIVE AddRates(_, _)
\* posts.reduce((sum, post) => sum + post.engagement_rate, sum), left to
\* right
AddRates(sum, posts) ==
  IF posts = <<>> THEN sum
  ELSE AddRates(FlAdd(sum, Head(posts).engagement_rate), Tail(posts))

totalEngagementRate(posts) == AddRates(Zero, posts)

\* (totalEngagementRate / posts.length).toFixed(4)
overallEngagementRate(posts) == toFixed4(Quot(totalEngagementRate(posts), Len(posts)))

\* the comparator of the two sorts, (a, b) => b[key] - a[key]
compareFn(a, b, key) == FlAdd(b[key], Num(-a[key].hi, -a[key].lo))

IsPositive(v) == v.hi > 0 \/ (v.hi = 0 /\ v.lo > 0)

RECURSIVE InsertSortedMutBeforeTies(_, _, _)
InsertSortedMutBeforeTies(x, sorted, key) ==
  IF sorted = <<>> THEN <<x>>
  ELSE IF ~IsPositive(compareFn(x, Head(sorted), key))
       THEN <<x>> \o sorted
       ELSE <<Head(sorted)>> \o InsertSortedMutBeforeTies(x, Tail(sorted), key)

RECURSIVE InsertSorted(_, _, _)
\* Array.prototype.sort is stable and orders by the comparator: x goes in
\* front of the first element the comparator puts after it, so behind every
\* earlier element it ties with.
InsertSorted(x, sorted, key) ==
  IF sorted = <<>> THEN <<x>>
  ELSE IF IsPositive(compareFn(Head(sorted), x, key))
       THEN <<x>> \o sorted
       ELSE <<Head(sorted)>> \o InsertSorted(x, Tail(sorted), key)

RECURSIVE sort(_, _, _)
\* [...posts].sort((a, b) => b[key] - a[key]): rest, taken left to right,
\* is put into done
sort(done, rest, key) ==
  IF rest = <<>> THEN done
  ELSE sort(InsertSorted(Head(rest), done, key), Tail(rest), key)

\* .slice(0, 5)
TopN == 5
sliceMutOneMore(xs, n) == SubSeq(xs, 1, IF Len(xs) < n + 1 THEN Len(xs) ELSE n + 1)
slice(xs, n) == SubSeq(xs, 1, IF Len(xs) < n THEN Len(xs) ELSE n)

\* [...posts].sort(...).slice(0, 5).map(p => p.id)
top5(posts, key) ==
  LET top == slice(sort(<<>>, posts, key), TopN)
  IN [i \in 1..Len(top) |-> top[i].id]

\* A name every object inherits from Object.prototype: mediaTypeStats[name]
\* is truthy on the empty object, and writing to its total and count creates
\* no property of mediaTypeStats.
InheritedNames == {Str(<<"c","o","n","s","t","r","u","c","t","o","r">>)}

\* the position of the property named type in mts, 0 when there is none
IndexOfType(mts, type) ==
  IF \E i \in 1..Len(mts) : mts[i].type = type
  THEN CHOOSE i \in 1..Len(mts) : mts[i].type = type
  ELSE 0

RECURSIVE CollectStats(_, _)
\* posts.forEach(post => ...): mts is the properties of mediaTypeStats in
\* the order they were created
CollectStats(mts, posts) ==
  IF posts = <<>> THEN mts
  ELSE LET type == Head(posts).media_type
           rate == Head(posts).engagement_rate
           k == IndexOfType(mts, type)
       IN CollectStats(
            IF type \in InheritedNames THEN mts
            ELSE IF k = 0
                 THEN Append(mts, [type |-> type, total |-> FlAdd(Zero, rate), count |-> 1])
                 ELSE [mts EXCEPT ![k] = [type |-> type, total |-> FlAdd(mts[k].total, rate),
                                          count |-> mts[k].count + 1]],
            Tail(posts))

mediaTypeStats(posts) == CollectStats(<<>>, posts)

\* a property name that is an array index: a decimal numeral without a
\* leading zero (below 2^32 - 1, as every numeral of the model is)
IsIndexKey(type) ==
  /\ type.s # <<>>
  /\ \A i \in 1..Len(type.s) : IsDigit(type.s[i])
  /\ (Len(type.s) = 1 \/ Head(type.s) # "0")

\* Object.keys(mediaTypeStats): the index keys in ascending numeric order,
\* then the other keys in creation order
ObjectKeys(mts) ==
  LET idx == {i \in 1..Len(mts) : IsIndexKey(mts[i].type)}
      oth == {i \in 1..Len(mts) : ~IsIndexKey(mts[i].type)}
      Before(i, j) ==
        IF i \in idx /\ j \in idx THEN DigitsValue(mts[i].type.s) < DigitsValue(mts[j].type.s)
        ELSE IF i \in idx THEN TRUE
        ELSE IF j \in idx THEN FALSE
        ELSE i < j
      Place(i) == 1 + Cardinality({j \in 1..Len(mts) : Before(j, i)})
  IN [r \in 1..Len(mts) |-> mts[CHOOSE i \in 1..Len(mts) : Place(i) = r]]

\* avgRate > bestMediaTypeRate, on the exact quotients
QuotGt(p, q) == p.num * q.den > q.num * p.den

RECURSIVE PickBest(_, _)
\* Object.keys(mediaTypeStats).forEach(type => ...), from the current best
PickBest(best, keys) ==
  IF keys = <<>> THEN best
  ELSE LET avgRate == Quot(Head(keys).total, Head(keys).count)
       IN PickBest(IF QuotGt(avgRate, best.rate)
                   THEN [type |-> Head(keys).type, rate |-> avgRate]
                   ELSE best,
                   Tail(keys))

\* let bestMediaType = ''; let bestMediaTypeRate = 0; and the loop
bestMedia(posts) ==
  PickBest([type |-> Str(<<>>), rate |-> Quot(Zero, 1)], ObjectKeys(mediaTypeStats(posts)))

RECURSIVE Distinct(_, _)
\* [...new Set(xs)]: the distinct values in first-seen order
Distinct(seen, xs) ==
  IF xs = <<>> THEN seen
  ELSE Distinct(IF \E i \in 1..Len(seen) : seen[i] = Head(xs) THEN seen
                ELSE Append(seen, Head(xs)),
                Tail(xs))

\* ['all', ...new Set(posts.map(p => p.media_type))]
all == Str(<<"a","l","l">>)
mediaTypes(posts) == <<all>> \o Distinct(<<>>, [i \in 1..Len(posts) |-> posts[i].media_type])

calculateStats(posts) ==
  [computed |-> TRUE,
   totalFollowersGained |-> AddFollowers(Zero, posts),
   overallEngagementRate |-> overallEngagementRate(posts),
   top5Engagement |-> top5(posts, "engagement_rate"),
   top5Shares |-> top5(posts, "shares"),
   bestMediaType |-> bestMedia(posts).type,
   bestMediaTypeRate |-> toFixed4(bestMedia(posts).rate),
   mediaTypes |-> mediaTypes(posts)]

\* ids.includes(id)
includes(ids, id) == \E r \in 1..Len(ids) : ids[r] = id

\* the class of a table row
rowClass(st, post) ==
  LET isTopEngagement == includes(st.top5Engagement, post.id)
      isTopShares == includes(st.top5Shares, post.id)
  IN IF isTopEngagement /\ isTopShares THEN "highlight-both"
     ELSE IF isTopEngagement THEN "highlight-green"
     ELSE IF isTopShares THEN "highlight-orange"
     ELSE ""

NoStats == [computed |-> FALSE, totalFollowersGained |-> Zero,
            overallEngagementRate |-> NoAverage,
            top5Engagement |-> <<>>, top5Shares |-> <<>>,
            bestMediaType |-> Str(<<>>), bestMediaTypeRate |-> NoAverage,
            mediaTypes |-> <<>>]

\* engagement rates of the posts handed to calculateStats: 0, 1, 1.5, 2, -1,
\* and 2^53 and -2^53
StatRates == {Zero, Int2Num(1), Num(0, 6), Int2Num(2), Int2Num(-1), Num(1, 0), Num(-1, 0)}

StatPost(i, rate) ==
  [id |-> Int2Num(i), engagement_rate |-> rate, followers_gained |-> Int2Num(i),
   shares |-> Zero, media_type |-> Str(MediaTexts[1])]

\* how many posts of ps have the engagement rate x
CountRate(ps, x) == Cardinality({i \in 1..Len(ps) : ps[i].engagement_rate = x})

\* The post lists of one to MaxStatPosts posts.  2^53 and -2^53 come in equal
\* numbers, so that the exact sum of a list is below 2^53 and the mean has
\* four decimals to show.
StatLists ==
  {ps \in UNION {{[i \in 1..k |-> StatPost(i, rs[i])] : rs \in [1..k -> StatRates]} :
                   k \in 1..MaxStatPosts} :
     CountRate(ps, Num(1, 0)) = CountRate(ps, Num(-1, 0))}

\* The posts of the top-5 runs: (engagement_rate, shares) is (1, 2), (1, 0) or
\* (2, 2), so that rows tie in either key.
TopChoices == {<<1, 2>>, <<1, 0>>, <<2, 2>>}

TopPost(i, c) ==
  [id |-> Int2Num(i), engagement_rate |-> Int2Num(c[1]), followers_gained |-> Zero,
   shares |-> Int2Num(c[2]), media_type |-> Str(MediaTexts[1])]

\* six rows with engagement_rate 1..6 and shares 6..1
ScenarioPosts == [i \in 1..6 |-> TopPost(i, <<i, 7 - i>>)]

TopLists ==
  {ScenarioPosts} \cup
  UNION {{[i \in 1..k |-> TopPost(i, cs[i])] : cs \in [1..k -> TopChoices]} :
           k \in 1..MaxTopPosts}

\* The posts of the media-type runs: engagement_rate -1, 0 or 2, and as
\* media_type a word, another word, an array index, or an inherited name.
MediaRates == {Int2Num(-1), Zero, Int2Num(2)}
MediaNames ==
  {Str(MediaTexts[1]), Str(MediaTexts[2]), Str(<<"7">>)} \cup InheritedNames

MediaPost(i, rate, type) ==
  [id |-> Int2Num(i), engagement_rate |-> rate, followers_gained |-> Zero,
   shares |-> Zero, media_type |-> type]

MediaLists(maxPosts) ==
  UNION {{[i \in 1..k |-> MediaPost(i, c[i][1], c[i][2])] :
            c \in [1..k -> MediaRates \X MediaNames]} :
           k \in 1..maxPosts}

\* the component re-renders: const stats = calculateStats()
Render ==
  /\ statPosts # <<>>
  /\ ~stats.computed
  /\ stats' = calculateStats(statPosts)
  /\ firstStats' = IF firstStats.computed THEN firstStats ELSE stats'
  /\ UNCHANGED <<statPosts, serverVars, appVars>>

\* the same posts arrive in another row order
Reorder ==
  /\ stats.computed
  /\ \E f \in [1..Len(statPosts) -> 1..Len(statPosts)] :
       /\ \A i, j \in 1..Len(statPosts) : i # j => f[i] # f[j]
       /\ \E i \in 1..Len(statPosts) : f[i] # i
       /\ statPosts' = [i \in 1..Len(statPosts) |-> statPosts[f[i]]]
  /\ stats' = NoStats
  /\ UNCHANGED <<firstStats, serverVars, appVars>>

(* ------------------------------ the App ------------------------------- *)
\* useState(null), useState(false), useState(null), useState('all'),
\* useState(false), useState(null); no campaign is NoCampaign, no error ""
InitialApp ==
  [campaign |-> NoCampaign, loading |-> FALSE, error |-> "",
   selectedMediaType |-> all, showAverageEngagementRate |-> FALSE,
   averageEngagementRate |-> Null]

AppInit ==
  /\ app = InitialApp
  /\ net = <<>>
  /\ sent = 0

\* the files the client uploads: two posts (video 4.5, image 2), one post
\* (image 2), and no data line
ClientLine(rate, type) == <<rate, type, NumTexts[1], NumTexts[1], NumTexts[1]>>
ClientFiles ==
  {[header |-> HeaderCanonical,
    rows |-> <<ClientLine(<<"4",".","5">>, MediaTexts[1]), ClientLine(<<"2">>, MediaTexts[2])>>],
   [header |-> HeaderCanonical, rows |-> <<ClientLine(<<"2">>, MediaTexts[2])>>],
   [header |-> HeaderCanonical, rows |-> <<>>]}

\* `/campaigns/${campaign.id}/average-engagement-rate`: the id as text
idParam(id) == <<Digits[id + 1]>>

Remove(msgs, i) == SubSeq(msgs, 1, i - 1) \o SubSeq(msgs, i + 1, Len(msgs))

\* handleFileUpload, up to await api.post; the file input is rendered while
\* no campaign is shown, also while an upload is loading
handleFileUpload(files) ==
  /\ app.campaign = NoCampaign
  /\ sent < MaxRequests
  /\ \E f \in files :
       net' = Append(net, [kind |-> "upload", r |-> sent + 1, file |-> f, id |-> 0])
  /\ sent' = sent + 1
  /\ app' = [app EXCEPT !.loading = TRUE, !.error = "", !.campaign = NoCampaign,
                        !.averageEngagementRate = Null,
                        !.showAverageEngagementRate = FALSE]
  /\ UNCHANGED <<serverVars, statVars>>

\* an upload of the client reaches the server
UploadArrives ==
  \E i \in 1..Len(net) :
    /\ net[i].kind = "upload"
    /\ net[i].r = received + 1
    /\ ReceiveFile({net[i].file})

\* handleFileUpload after await api.post: setCampaign(response.data.campaign),
\* or the catch block with the server's error; finally setLoading(false)
UploadResponse ==
  \E i \in 1..Len(net) :
    /\ net[i].kind = "upload"
    /\ net[i].r <= received
    /\ req[net[i].r].pc = "done"
    /\ LET resp == req[net[i].r].resp
       IN app' = IF resp.status = 200
                 THEN [app EXCEPT !.campaign = [id |-> resp.campaign.id,
                                                posts |-> JsonPosts(resp.campaign.posts)],
                                  !.loading = FALSE]
                 ELSE [app EXCEPT !.error = resp.error, !.loading = FALSE]
    /\ net' = Remove(net, i)
    /\ UNCHANGED <<serverVars, statVars, sent>>

\* handleShowAverageEngagementRate, up to await api.get
handleShowAverageEngagementRate ==
  /\ app.campaign # NoCampaign
  /\ IF app.showAverageEngagementRate
     THEN /\ app' = [app EXCEPT !.showAverageEngagementRate = FALSE,
                                !.averageEngagementRate = Null]
          /\ net' = net
     ELSE /\ Cardinality({i \in 1..Len(net) : net[i].kind = "average"}) < MaxInFlight
          /\ net' = Append(net, [kind |-> "average", r |-> 0, file |-> NoFile,
                                  id |-> app.campaign.id])
          /\ app' = app
  /\ UNCHANGED <<serverVars, statVars, sent>>

\* handleShowAverageEngagementRate after await api.get.  A stored campaign
\* never changes, so the answer is that of the store at any moment after the
\* request.
AverageResponse ==
  \E i \in 1..Len(net) :
    /\ net[i].kind = "average"
    /\ up
    /\ LET resp == GetAverageResp(campaigns, idParam(net[i].id))
       IN app' = IF resp.status = 200
                 THEN [app EXCEPT !.averageEngagementRate = resp.average,
                                  !.showAverageEngagementRate = TRUE]
                 ELSE [app EXCEPT !.error = resp.error]
    /\ net' = Remove(net, i)
    /\ UNCHANGED <<serverVars, statVars, sent>>

\* the onClick of the reset button, rendered while a campaign is shown
resetButton ==
  /\ app.campaign # NoCampaign
  /\ app' = [app EXCEPT !.campaign = NoCampaign, !.showAverageEngagementRate = FALSE,
                        !.averageEngagementRate = Null, !.selectedMediaType = all]
  /\ UNCHANGED <<serverVars, statVars, net, sent>>

\* the onChange of the filter select, whose options are stats.mediaTypes
selectMediaType ==
  /\ app.campaign # NoCampaign
  /\ \E k \in 1..Len(mediaTypes(app.campaign.posts)) :
       app' = [app EXCEPT !.selectedMediaType = mediaTypes(app.campaign.posts)[k]]
  /\ UNCHANGED <<serverVars, statVars, net, sent>>

\* const filteredPosts = ...
filteredPosts(a) ==
  IF a.campaign # NoCampaign /\ a.selectedMediaType # all
  THEN SelectSeq(a.campaign.posts, LAMBDA post : post.media_type = a.selectedMediaType)
  ELSE a.campaign.posts

(* ---------------------------- specifications --------------------------- *)
ServerInit ==
  /\ campaigns = <<>>
  /\ uploads = {}
  /\ req = [r \in Requests |-> Idle]
  /\ received = 0
  /\ up = TRUE

ClientIdle ==
  /\ statPosts = <<>>
  /\ stats = NoStats
  /\ firstStats = NoStats
  /\ AppInit

\* The server under concurrent uploads and reads.
Init == ServerInit /\ ClientIdle

Next ==
  \/ MulterReject
  \/ NoFileUploaded
  \/ ReceiveFile(ServerFiles)
  \/ ParseData
  \/ ParseEnd
  \/ ParserError
  \/ ReadError
  \/ GetCampaign
  \/ GetAll
  \/ GetAverage

Spec == Init /\ [][Next]_vars

\* One upload on a fresh server, over every file of Files(MaxRows).
UploadNext ==
  \/ (received = 0 /\ ReceiveFile(Files(MaxRows)))
  \/ ParseData
  \/ ParseEnd

UploadSpec == Init /\ [][UploadNext]_vars

\* One upload of a file of RateFiles, and reads of the average.
AverageNext ==
  \/ (received = 0 /\ ReceiveFile(RateFiles))
  \/ ParseData
  \/ ParseEnd
  \/ GetAverage

AverageSpec == Init /\ [][AverageNext]_vars

\* The App against the server: uploads, the average toggle, the reset button
\* and the filter, with the responses arriving in any order.
ClientNext ==
  \/ handleFileUpload(ClientFiles)
  \/ UploadArrives
  \/ ParseData
  \/ ParseEnd
  \/ UploadResponse
  \/ handleShowAverageEngagementRate
  \/ AverageResponse
  \/ resetButton
  \/ selectMediaType

ClientSpec == Init /\ [][ClientNext]_vars

\* calculateStats over every list of StatLists.
StatsInit ==
  /\ ServerInit
  /\ AppInit
  /\ statPosts \in StatLists
  /\ stats = NoStats
  /\ firstStats = NoStats

StatsNext == Render \/ Reorder

StatsSpec == StatsInit /\ [][StatsNext]_vars

\* calculateStats over every list of TopLists.
TopInit ==
  /\ ServerInit
  /\ AppInit
  /\ statPosts \in TopLists
  /\ stats = NoStats
  /\ firstStats = NoStats

TopNext == Render

TopSpec == TopInit /\ [][TopNext]_vars

\* calculateStats over every list of MediaLists(MaxMediaPosts).
MediaInit ==
  /\ ServerInit
  /\ AppInit
  /\ statPosts \in MediaLists(MaxMediaPosts)
  /\ stats = NoStats
  /\ firstStats = NoStats

MediaNext == Render

MediaSpec == MediaInit /\ [][MediaNext]_vars


(* ------------------------------ properties ----------------------------- *)
\* the requests the route handler has answered, and those among them whose
\* file was stored in uploads/
Answered == {r \in Requests : req[r].pc = "done"}
Accepted == {r \in Answered : req[r].resp.status = 200}
Stored == {r \in Requests : req[r].file # NoFile}

\* the decimal text of a campaign id below 10
IdText(n) == <<Digits[n + 1]>>

\* C1: after any sequence of uploads, successful or failed, also with parses
\* that overlap, the k-th campaign of the store has id k; so every id is a
\* positive integer and no two campaigns share one.
C1_IdIsPosition ==
  /\ \A k \in 1..Len(campaigns) : campaigns[k].id = k
  /\ \A i, j \in 1..Len(campaigns) : i # j => campaigns[i].id # campaigns[j].id

\* two uploads were parsed at the same time and the later one finished first
C1_Witness ==
  /\ Len(campaigns) = 2
  /\ req[2].resp.status = 200 /\ req[2].resp.campaign.id = 1
  /\ req[1].resp.status = 200 /\ req[1].resp.campaign.id = 2

\* C2: a successful upload of a file with data rows R1..Rn stores and returns
\* a campaign of n posts, post i made from row Ri; and in every later state
\* GET /campaigns/:id with the returned id answers that same campaign.
C2_RoundTrip ==
  \A r \in Accepted :
    LET c == req[r].resp.campaign
        f == req[r].file
    IN /\ Len(c.posts) = Len(f.rows)
       /\ \A i \in 1..Len(f.rows) :
            c.posts[i] = NormalizePost(WriteRow(f.header, f.rows[i]), i - 1)
       /\ GetCampaignResp(campaigns, IdText(c.id)).status = 200
       /\ GetCampaignResp(campaigns, IdText(c.id)).campaign = c

\* a two-row upload was answered and another campaign was stored after it
C2_Witness ==
  \E r \in Accepted :
    /\ Len(req[r].file.rows) = 2
    /\ req[r].resp.campaign.id = 1
    /\ Len(campaigns) = 2
    /\ req[r].resp.campaign.posts[1] # req[r].resp.campaign.posts[2]

\* C3: the store is append-only.  A step in which no upload is answered 200
\* leaves campaigns as it is; a step in which one is answered 200 appends
\* exactly the campaign of that answer, so that GET /campaigns/ lists the
\* campaigns in insertion order.
C3_AppendOnly ==
  [][LET ok == {r \in Requests : req[r].resp.status # 200 /\ req'[r].resp.status = 200}
     IN IF ok = {}
        THEN campaigns' = campaigns
        ELSE /\ \E r \in ok : ok = {r} /\ campaigns' = Append(campaigns, req'[r].resp.campaign)
             /\ GetAllResp(campaigns').list = campaigns']_vars

\* one upload was stored and the next one was refused
C3_Witness ==
  /\ Len(campaigns) = 1
  /\ \E r \in Answered : req[r].resp.status = 400 /\ r = 2
  /\ req[1].resp.status = 200

\* C4: once an upload whose file was written to uploads/ is over, the file is
\* gone: no uploaded file outlives the handling of its request.
C4_NoFileLeft ==
  \A r \in Stored : req[r].pc \in {"done", "aborted"} => r \notin uploads

\* C5: no stored campaign is without posts; a file that parses to zero rows
\* is answered 400 "CSV file is empty" and nothing is stored for it.
C5_NonEmptyPosts ==
  /\ \A k \in 1..Len(campaigns) : Len(campaigns[k].posts) > 0
  /\ \A r \in Answered \cap Stored :
       (Len(req[r].file.rows) = 0 /\ req[r].resp.status # 500)
         => /\ req[r].resp.status = 400
            /\ req[r].resp.error = "CSV file is empty"
            /\ \A k \in 1..Len(campaigns) : campaigns[k] # req[r].resp.campaign

\* a header-only file was refused while a campaign was in the store
C5_Witness ==
  /\ Len(campaigns) = 1
  /\ \E r \in Answered \cap Stored :
       Len(req[r].file.rows) = 0 /\ req[r].resp.error = "CSV file is empty"


\* the columns of a header whose name, trimmed and lower-cased, is field
Columns(header, field) ==
  {j \in 1..Len(header) : toLowerCase(trim(header[j])) = field}

\* the required fields no column of the header stands for, in their order
HeaderLacks(header) ==
  SelectSeq(requiredFields, LAMBDA field : Columns(header, field) = {})

\* C6: an upload with at least one data row is refused with 400 "Missing
\* required fields" exactly when its header, each name trimmed and
\* lower-cased, lacks one of the five required fields; the message names
\* exactly the fields the header lacks.
C6_RejectedIffHeaderLacks ==
  \A r \in Answered \cap Stored :
    Len(req[r].file.rows) >= 1 =>
      /\ (req[r].resp.status = 400 /\ req[r].resp.error = "Missing required fields")
           <=> HeaderLacks(req[r].file.header) # <<>>
      /\ req[r].resp.missing = HeaderLacks(req[r].file.header)

\* C7: within a stored campaign no two posts have the same id.
C7_PostIdsUnique ==
  \A k \in 1..Len(campaigns) :
    \A i, j \in 1..Len(campaigns[k].posts) :
      i # j => campaigns[k].posts[i].id # campaigns[k].posts[j].id

\* the cells row i of a file has in the columns that stand for field
CellsOf(f, i, field) ==
  {f.rows[i][j] : j \in {j \in Columns(f.header, field) : j <= Len(f.rows[i])}}

\* C8: the id of the post made from row i is the text of the row's post_id
\* cell (the column found by its trimmed, lower-cased name) when that cell
\* is not empty, and the 1-based position i otherwise (no such cell, or an
\* empty one).  Where two columns stand for post_id, this is read of one of
\* them.
C8_PostIdFromCellOrPosition ==
  \A r \in Accepted :
    \A i \in 1..Len(req[r].file.rows) :
      LET id == req[r].resp.campaign.posts[i].id
          cells == CellsOf(req[r].file, i, s_post_id)
      IN IF cells = {} THEN id = Int2Num(i)
         ELSE \E cell \in cells : id = (IF cell # <<>> THEN Str(cell) ELSE Int2Num(i))

\* one post took its id from a column spelled " Post_ID ", the next one its
\* position
C8_Witness ==
  \E r \in Accepted :
    /\ req[r].file.header = HeaderPostIdSpelled
    /\ Len(req[r].file.rows) = 2
    /\ req[r].resp.campaign.posts[1].id = Str(PidTexts[2])
    /\ req[r].resp.campaign.posts[2].id = Int2Num(2)

\* the integer fields of a post: the record field and the canonical name
IntFields ==
  { <<"likes", s_likes>>, <<"comments", s_comments>>, <<"shares", s_shares>>,
    <<"saves", s_saves>>, <<"reach", s_reach>>, <<"impressions", s_impressions>>,
    <<"caption_length", s_caption_length>>, <<"hashtags_count", s_hashtags_count>>,
    <<"followers_gained", s_followers_gained>> }

IsInteger(v) == v.t = "num" /\ v.hi = 0 /\ v.lo % Frac = 0

\* a text with a number at its start: white space, an optional sign, a digit
\* (for a rate also a point and a digit)
StartsWithDigit(s) == s # <<>> /\ Head(s) \in {Digits[d] : d \in 1..Len(Digits)}
LooksInt(cell) == StartsWithDigit(Unsigned(TrimStart(cell)))
LooksFloat(cell) ==
  \/ LooksInt(cell)
  \/ LET u == Unsigned(TrimStart(cell))
     IN u # <<>> /\ Head(u) = "." /\ StartsWithDigit(Tail(u))

\* C9: every integer field of a stored post is an integer, and is 0 when the
\* row has no cell for it or the cell is empty or starts with no integer;
\* engagement_rate is a number, and 0 when absent or unparsable; bad numeric
\* data never fails the upload.
C9_NumericDefaults ==
  \A r \in Answered \cap Stored :
    /\ req[r].resp.status \in {200, 400}
    /\ (Len(req[r].file.rows) >= 1 /\ missingFields(WriteRow(req[r].file.header, req[r].file.rows[1])) = <<>>)
         => req[r].resp.status = 200
    /\ req[r].resp.status = 200 =>
         \A i \in 1..Len(req[r].file.rows) :
           LET post == req[r].resp.campaign.posts[i]
           IN /\ \A fld \in IntFields :
                   /\ IsInteger(post[fld[1]])
                   /\ (\A cell \in CellsOf(req[r].file, i, fld[2]) : ~LooksInt(cell))
                        => post[fld[1]] = Zero
              /\ IsNum(post.engagement_rate)
              /\ (\A cell \in CellsOf(req[r].file, i, s_engagement_rate) : ~LooksFloat(cell))
                   => post.engagement_rate = Zero

\* a stored post with a parsed integer, a defaulted junk cell, a defaulted
\* missing column and a defaulted unparsable rate
C9_Witness ==
  \E r \in Accepted :
    \E i \in 1..Len(req[r].file.rows) :
      LET post == req[r].resp.campaign.posts[i]
      IN /\ CellsOf(req[r].file, i, s_saves) = {NumTexts[1]} /\ post.saves = Int2Num(12)
         /\ CellsOf(req[r].file, i, s_shares) = {NumTexts[4]} /\ post.shares = Int2Num(7)
         /\ CellsOf(req[r].file, i, s_followers_gained) = {NumTexts[3]}
         /\ post.followers_gained = Zero
         /\ CellsOf(req[r].file, i, s_reach) = {} /\ post.reach = Zero
         /\ CellsOf(req[r].file, i, s_engagement_rate) = {RateTexts[3]}
         /\ post.engagement_rate = Zero

RECURSIVE ExactSum(_)
\* the sum of the engagement rates in exact arithmetic
ExactSum(posts) ==
  IF posts = <<>> THEN [hi |-> 0, lo |-> 0]
  ELSE LET p == posts[Len(posts)].engagement_rate
           s == ExactSum(SubSeq(posts, 1, Len(posts) - 1))
       IN [hi |-> s.hi + p.hi, lo |-> s.lo + p.lo]

\* the exact mean rounded to four decimals, a tie going away from zero
RoundedMean(posts) ==
  LET lo == ExactSum(posts).lo
      den == Frac * Len(posts)
      tenk == (2 * Abs(lo) * 10000 + den) \div (2 * den)
  IN [neg |-> lo < 0 /\ tenk # 0, tenk |-> tenk]

\* C10: for every non-empty post list overallEngagementRate is the mean of
\* the engagement rates rounded to four decimals, and it is the same for
\* every order of the same posts.
C10_MeanAndOrder ==
  stats.computed =>
    /\ stats.overallEngagementRate = RoundedMean(statPosts)
    /\ stats.overallEngagementRate = firstStats.overallEngagementRate

\* a > b for two doubles
Gt(a, b) == a.hi > b.hi \/ (a.hi = b.hi /\ a.lo > b.lo)

\* the place of row i when the rows are ordered descending by key, rows with
\* equal keys staying in row order
RankOf(posts, key, i) ==
  1 + Cardinality({j \in 1..Len(posts) :
                     \/ Gt(posts[j][key], posts[i][key])
                     \/ (posts[j][key] = posts[i][key] /\ j < i)})

StableTop(posts, key) ==
  [r \in 1..(IF Len(posts) < 5 THEN Len(posts) ELSE 5) |->
     posts[CHOOSE i \in 1..Len(posts) : RankOf(posts, key, i) = r].id]

\* C11: for every non-empty post list top5Engagement (top5Shares) is the ids
\* of the first min(5, len) posts in descending order of engagement_rate
\* (shares), rows with equal keys in row order; every id is an id of an input
\* post, and the result is a function of the posts alone.
C11_TopFiveStable ==
  stats.computed =>
    /\ stats.top5Engagement = StableTop(statPosts, "engagement_rate")
    /\ stats.top5Shares = StableTop(statPosts, "shares")
    /\ \A key \in {"top5Engagement", "top5Shares"} :
         \A r \in 1..Len(stats[key]) :
           \E i \in 1..Len(statPosts) : statPosts[i].id = stats[key][r]
    /\ stats = calculateStats(statPosts)

\* more than five rows, and a tie in engagement_rate broken at the cut: the
\* earlier row is in the top five, the later one is not
C11_Witness ==
  /\ stats.computed
  /\ Len(statPosts) > 5
  /\ \E i, j \in 1..Len(statPosts) :
       /\ i < j
       /\ statPosts[i].engagement_rate = statPosts[j].engagement_rate
       /\ \E r \in 1..Len(stats.top5Engagement) : stats.top5Engagement[r] = statPosts[i].id
       /\ \A r \in 1..Len(stats.top5Engagement) : stats.top5Engagement[r] # statPosts[j].id

\* the media types of the posts
TypesOf(posts) == {posts[i].media_type : i \in 1..Len(posts)}

\* the exact mean engagement_rate of the posts of one media type
MeanOfType(posts, type) ==
  LET rows == {i \in 1..Len(posts) : posts[i].media_type = type}
      sub == SelectSeq(posts, LAMBDA p : p.media_type = type)
  IN [num |-> ExactSum(sub).lo, den |-> Frac * Cardinality(rows)]

FirstRowOf(posts, type) ==
  CHOOSE i \in 1..Len(posts) :
    posts[i].media_type = type /\ \A j \in 1..(i - 1) : posts[j].media_type # type

\* C12: for every non-empty post list bestMediaType is a media type of the
\* posts, no media type has a higher mean engagement_rate, and no media type
\* with the same mean appears earlier in the input.
C12_BestMediaType ==
  stats.computed =>
    /\ stats.bestMediaType \in TypesOf(statPosts)
    /\ \A type \in TypesOf(statPosts) :
         LET best == MeanOfType(statPosts, stats.bestMediaType)
             mean == MeanOfType(statPosts, type)
         IN /\ ~QuotGt(mean, best)
            /\ (mean.num * best.den = best.num * mean.den)
                 => FirstRowOf(statPosts, stats.bestMediaType) <= FirstRowOf(statPosts, type)

\* the ids that top5Engagement and top5Shares both hold
InBoth(st) == {st.top5Engagement[r] : r \in 1..Len(st.top5Engagement)}
                \cap {st.top5Shares[r] : r \in 1..Len(st.top5Shares)}

ScenarioRendered == stats.computed /\ statPosts = ScenarioPosts

ScenarioTops ==
  /\ stats.overallEngagementRate = [neg |-> FALSE, tenk |-> 35000]
  /\ stats.top5Engagement = <<Int2Num(6), Int2Num(5), Int2Num(4), Int2Num(3), Int2Num(2)>>
  /\ stats.top5Shares = <<Int2Num(1), Int2Num(2), Int2Num(3), Int2Num(4), Int2Num(5)>>

\* C13 as stated: for the six rows with engagement_rate 1..6 and shares 6..1
\* the overall rate is 3.5000, top5Engagement is the rows with rates 6, 5, 4,
\* 3, 2, top5Shares the rows with shares 6, 5, 4, 3, 2, and only row 1's id is
\* in both.
C13_ScenarioAsStated ==
  ScenarioRendered => (ScenarioTops /\ InBoth(stats) = {Int2Num(1)})

\* C13 amended: the overall rate and the two lists are as stated, and the ids
\* in both lists are those of rows 2, 3, 4 and 5 (highlighted as both); row 1
\* is in top5Shares only and row 6 in top5Engagement only.
C13_Scenario ==
  ScenarioRendered =>
    /\ ScenarioTops
    /\ InBoth(stats) = {Int2Num(2), Int2Num(3), Int2Num(4), Int2Num(5)}
    /\ \A i \in 2..5 : rowClass(stats, statPosts[i]) = "highlight-both"
    /\ rowClass(stats, statPosts[1]) = "highlight-orange"
    /\ rowClass(stats, statPosts[6]) = "highlight-green"

C13_Witness == ScenarioRendered /\ Len(stats.top5Engagement) = 5

\* a number on the wire and a toFixed(4) text denote the same number
NumEq(number, text) ==
  /\ "tenk" \in DOMAIN number
  /\ "tenk" \in DOMAIN text
  /\ number.tenk = text.tenk
  /\ (number.tenk # 0 => number.neg = text.neg)

\* C14: for every stored campaign, the averageEngagementRate that GET
\* /campaigns/:id/average-engagement-rate returns is numerically equal to the
\* overallEngagementRate calculateStats computes from the posts of that
\* campaign as the client received them.
C14_ServerEqualsClient ==
  up =>
    \A k \in 1..Len(campaigns) :
      /\ GetAverageResp(campaigns, IdText(k)).status = 200
      /\ NumEq(GetAverageResp(campaigns, IdText(k)).average,
               overallEngagementRate(JsonPosts(campaigns[k].posts)))

\* the stored campaigns whose id is the integer the path parameter is read as
WithId(param) ==
  {k \in 1..Len(campaigns) : Int2Num(campaigns[k].id) = parseInt(Str(param))}

\* C15: in every state of the store, both GET routes with an id answer 404
\* 'Campaign not found' exactly when no stored campaign has the integer the
\* path parameter is read as (parseInt: 2x is read as 2, x as no number), and
\* otherwise answer 200 with the one stored campaign of that id, or with its
\* average.
C15_NotFoundIffNoSuchId ==
  up =>
    \A param \in IdParams :
      LET byId == GetCampaignResp(campaigns, param)
          avg == GetAverageResp(campaigns, param)
      IN IF WithId(param) = {}
         THEN /\ byId.status = 404 /\ byId.error = "Campaign not found"
              /\ avg.status = 404 /\ avg.error = "Campaign not found"
         ELSE /\ Cardinality(WithId(param)) = 1
              /\ \A k \in WithId(param) :
                   /\ byId.status = 200 /\ byId.error = "" /\ byId.campaign = campaigns[k]
                   /\ avg.status = 200 /\ avg.error = ""
                   /\ avg.average = JsonNumber(ParseFixed(
                                      calculateAverageEngagementRate(campaigns[k].posts)))

\* one campaign is stored: id 1 is found and id 2 is not
C15_Witness ==
  /\ up
  /\ Len(campaigns) = 1
  /\ GetCampaignResp(campaigns, <<"1">>).status = 200
  /\ GetCampaignResp(campaigns, <<"2">>).status = 404
  /\ GetAverageResp(campaigns, <<"2">>).error = "Campaign not found"

\* an average engagement rate is displayed
Displayed == app.showAverageEngagementRate /\ app.averageEngagementRate # Null

\* C16: whenever an average engagement rate is displayed, a campaign is
\* displayed and the rate is the one the server returns for that campaign,
\* whatever the order of the toggle's request and response, resets and
\* uploads.
C16_DisplayedAverageIsCurrent ==
  Displayed =>
    /\ app.campaign # NoCampaign
    /\ app.averageEngagementRate =
         GetAverageResp(campaigns, idParam(app.campaign.id)).average

\* C17: selectedMediaType is 'all' while no campaign is displayed, and
\* otherwise 'all' or the media_type of a post of the displayed campaign; the
\* displayed rows are all posts under 'all' and the posts of the selected
\* media type otherwise, in row order.
C17_SelectionWithinCampaign ==
  /\ app.campaign = NoCampaign => app.selectedMediaType = all
  /\ app.campaign # NoCampaign =>
       \/ app.selectedMediaType = all
       \/ \E i \in 1..Len(app.campaign.posts) :
            app.campaign.posts[i].media_type = app.selectedMediaType
  /\ filteredPosts(app) =
       IF app.selectedMediaType = all THEN app.campaign.posts
       ELSE SelectSeq(app.campaign.posts,
                      LAMBDA post : post.media_type = app.selectedMediaType)

=============================================================================
